---- MODULE Spec2Model ----
(***************************************************************************)
(* ClientConnector (src/lib/src/server/client_connector.rs): four threads  *)
(* started by ClientConnector::start -- the transport loop polling the     *)
(* websocket EventHub, and one loop per producer channel (IPC, process     *)
(* detection, socket commands) -- sharing the client registry and, for the *)
(* process-detection loop, last_pid / active_socket.                       *)
(*                                                                         *)
(* A step of the model is what one thread does between two acquisitions    *)
(* of the registry lock: the statements that only touch the thread's own   *)
(* locals are folded into the step that follows them.                      *)
(***************************************************************************)
EXTENDS Integers, Sequences, FiniteSets, TLC

(* ------------------------------ bounds --------------------------------- *)

\* transport events (connect, message, disconnect) the EventHub queues in a run of Spec
MaxHubEvents == 2
\* events received from the three producer channels together in a run of Spec
MaxInputs == 2
\* transport events and process-detection events in a run of SpecProc
MaxProcHubEvents == 2
MaxProcTrace == 3
\* transport events in a run of SpecScenario
MaxScenarioHubEvents == 3
\* transport events and IPC events in a run of SpecIpc
MaxIpcHubEvents == 3
MaxIpcEvents == 1
\* transport events and events sent into the producer channels in a run of SpecFifo
MaxFifoHubEvents == 1
MaxFifoEvents == 3
\* transport events and producer events in a run of SpecLocks
MaxLockHubEvents == 3
MaxLockInputs == 2

(* ------------------------------ Option --------------------------------- *)

\* Option<T>: None is the empty sequence, Some(v) the one-element sequence
None == <<>>
Some(v) == <<v>>
IsSome(o) == o # None
UnwrapOr(o, d) == IF o = None THEN d ELSE o[1]

(* ------------------------------ payloads ------------------------------- *)

\* u64::to_string / Display of a u64
U64ToString(n) == ToString(n)

\* empty_activity(pid, socket_id): the format! template, character by character
empty_activity(pid, socket_id) ==
  "\n    {\n      \"activity\": null,\n      \"pid\": " \o U64ToString(pid)
  \o ",\n      \"socketId\": \"" \o socket_id \o "\"\n    }\n  "

\* the populated payload with the timestamp written between quotes
TimestampQuoted(proc_activity) ==
  "\n          {\n            \"activity\": {\n              \"application_id\": \""
  \o proc_activity.id
  \o "\",\n              \"name\": \"" \o proc_activity.name
  \o "\",\n              \"timestamps\": {\n                \"start\": \""
  \o UnwrapOr(proc_activity.timestamp, "0")
  \o "\"\n              },\n              \"type\": 0,\n              \"metadata\": {},\n              \"flags\": 0\n            },\n            \"pid\": "
  \o U64ToString(UnwrapOr(proc_activity.pid, 0))
  \o ",\n            \"socketId\": \"" \o proc_activity.id \o "\"\n          }\n          "

\* the populated payload of the process-detection loop; the timestamp is
\* interpolated by a bare {} (no quotes around it), the id and name by "{}"
proc_payload(proc_activity) ==
  "\n          {\n            \"activity\": {\n              \"application_id\": \""
  \o proc_activity.id
  \o "\",\n              \"name\": \"" \o proc_activity.name
  \o "\",\n              \"timestamps\": {\n                \"start\": "
  \o UnwrapOr(proc_activity.timestamp, "0")
  \o "\n              },\n              \"type\": 0,\n              \"metadata\": {},\n              \"flags\": 0\n            },\n            \"pid\": "
  \o U64ToString(UnwrapOr(proc_activity.pid, 0))
  \o ",\n            \"socketId\": \"" \o proc_activity.id \o "\"\n          }\n          "

\* data_on_connect: the welcome payload handed to ClientConnector::new
data_on_connect == "{\"cmd\":\"READY\"}"

(* ------------------------------ inputs --------------------------------- *)

\* ProcessDetectedEvent.activity values the watcher sends
ProcEvents ==
  { [id |-> "null", name |-> "",        timestamp |-> None,         pid |-> None],
    [id |-> "123",  name |-> "Game",    timestamp |-> None,         pid |-> Some(42)],
    [id |-> "123",  name |-> "Game II", timestamp |-> Some("1700"), pid |-> Some(7)],
    [id |-> "456",  name |-> "Editor",  timestamp |-> None,         pid |-> None] }

\* texts a client sends over its socket
Messages == {"ping"}

NoEvent == [id |-> "", name |-> "", timestamp |-> None, pid |-> None]

\* ActivityCmd, its args and the Activity inside (crate::cmd)
Activity(name, flags) == [application_id |-> Some("stale"), name |-> name, flags |-> flags]
CmdArgs(pid, activity) == [pid |-> pid, activity |-> activity]
ActivityCmd(cmd, args) == [application_id |-> Some("app1"), cmd |-> cmd, args |-> args]

\* an activity name serde_json cannot write
Unwritable == "<unwritable>"

\* ActivityCmd values the IPC source sends
IpcEvents ==
  { ActivityCmd("SET_ACTIVITY", None),
    ActivityCmd("SET_ACTIVITY", Some(CmdArgs(None, None))),
    ActivityCmd("SET_ACTIVITY", Some(CmdArgs(Some(42), None))),
    ActivityCmd("SET_ACTIVITY", Some(CmdArgs(Some(42), Some(Activity("Song", None))))),
    ActivityCmd("SET_ACTIVITY", Some(CmdArgs(None, Some(Activity("Song", Some(1)))))),
    ActivityCmd("SET_ACTIVITY", Some(CmdArgs(Some(42), Some(Activity(Unwritable, None))))) }

\* ActivityCmd values the socket-command source sends
WsEvents ==
  { ActivityCmd("SET_ACTIVITY", None),
    ActivityCmd("SET_ACTIVITY", Some(CmdArgs(Some(7), None))),
    ActivityCmd("SET_ACTIVITY", Some(CmdArgs(None, Some(Activity("Song", None))))),
    ActivityCmd("SET_ACTIVITY", Some(CmdArgs(Some(7), Some(Activity(Unwritable, None))))),
    ActivityCmd("DISPATCH", None),
    ActivityCmd("DISPATCH", Some(CmdArgs(Some(7), Some(Activity("Song", None))))),
    ActivityCmd("DISPATCH", Some(CmdArgs(None, Some(Activity(Unwritable, None))))) }

NoCmd == ActivityCmd("", None)

(* ------------------------------ state ---------------------------------- *)

VARIABLES
  hub,            \* EventHub: transport events not yet polled (FIFO)
  alive,          \* connection ids whose socket is open
  nextId,         \* id the server gives the next connection
  nHub,           \* transport events queued so far
  clients,        \* registry: ids that have a Responder in the HashMap
  sent,           \* per connection id, the Responder::send calls made on it
  tpc, tev,       \* transport loop: position, event being handled
  last_pid, active_socket,
  proc_pc, proc_ev,
  procLog,        \* per received process-detection event: what the loop did
  ipc_pc, ipc_ev,
  ipcCount,       \* IPC events received so far
  ipcEntry,       \* what the IPC loop did with the event it received last
  ws_pc, ws_ev,
  wsCount,        \* socket-command events received so far
  wsEntry,        \* what the socket-command loop did with its last event
  chan,           \* per producer channel: events sent and not yet received (FIFO)
  arrivals,       \* every event sent into a producer channel, in the order sent
  taken,          \* per producer channel: the events recv() returned, in order
  holder,         \* per mutex (server, clients): the thread holding it, or "free"
  poisoned,       \* the mutexes a panicking thread has let go of
  iter,           \* per producer loop: the send_data iteration it is in, if any
  drop_pc         \* the thread that owns the handle start() was called on

transportVars == <<hub, alive, nextId, nHub, clients, sent, tpc, tev>>
\* the transport state a producer loop leaves alone when it calls send_data
registryVars == <<hub, alive, nextId, nHub, clients, tpc, tev>>
procVars == <<last_pid, active_socket, proc_pc, proc_ev, procLog>>
ipcVars == <<ipc_pc, ipc_ev, ipcCount, ipcEntry>>
wsVars == <<ws_pc, ws_ev, wsCount, wsEntry>>
\* the producer channels, used where the order of arrival matters
fifoVars == <<chan, arrivals, taken>>
\* the mutexes, followed where it matters who holds them
lockVars == <<holder, poisoned, iter, drop_pc>>
vars == <<hub, alive, nextId, nHub, clients, sent, tpc, tev,
          last_pid, active_socket, proc_pc, proc_ev, procLog,
          ipc_pc, ipc_ev, ipcCount, ipcEntry, ws_pc, ws_ev, wsCount, wsEntry,
          chan, arrivals, taken, holder, poisoned, iter, drop_pc>>

\* the three producer channels: ipc_event_rec, proc_event_rec, ws_event_rec
Producers == {"ipc", "proc", "ws"}

\* the mutexes more than one thread locks: server (the transport loop and
\* Drop) and clients (all four loops); last_pid and active_socket are locked by
\* the process-detection loop alone, each receiver by its own loop alone
Mutexes == {"server", "clients"}
Free == "free"

Ids == 1..(MaxHubEvents + MaxIpcHubEvents + MaxScenarioHubEvents)

HubEvent(type, id, msg) == [type |-> type, id |-> id, msg |-> msg]
\* the transport loop holds no event while it waits in poll_event
NoHubEvent == HubEvent("", 0, "")

(* ------------------------------ send_data ------------------------------ *)

\* Responder::send on connection c: the call is made whether or not the socket
\* is still open; ok records whether the client was there to take it, by the
\* place of the call ("connect", "echo", or the producer loop of a send_data)
SendTo(s, c, data, by) ==
  [s EXCEPT ![c] = Append(@, [data |-> data, ok |-> c \in alive, by |-> by])]

\* send_data breaking off at the first send that fails (ids in ascending order)
SendDataStopOnFailure(s, registry, data, by) ==
  [c \in DOMAIN s |->
     IF c \in registry /\ \A d \in registry : (d < c) => d \in alive
     THEN Append(s[c], [data |-> data, ok |-> c \in alive, by |-> by])
     ELSE s[c]]

\* send_data: one Responder::send per registry entry, under the registry lock
SendData(s, registry, data, by) ==
  [c \in DOMAIN s |->
     IF c \in registry
     THEN Append(s[c], [data |-> data, ok |-> c \in alive, by |-> by])
     ELSE s[c]]

\* what a producer loop records about one send_data call
Broadcast(data) == [data |-> data, to |-> clients]

(* ------------------------------ transport ------------------------------ *)

\* a client opens a connection: the server queues Event::Connect
EnvConnect ==
  /\ alive' = alive \cup {nextId}
  /\ nextId' = nextId + 1
  /\ nHub' = nHub + 1
  /\ hub' = Append(hub, HubEvent("Connect", nextId, ""))
  /\ UNCHANGED <<clients, sent, tpc, tev>>

\* an open connection sends a text: the server queues Event::Message
EnvMessage(c, m) ==
  /\ c \in alive
  /\ nHub' = nHub + 1
  /\ hub' = Append(hub, HubEvent("Message", c, m))
  /\ UNCHANGED <<alive, nextId, clients, sent, tpc, tev>>

\* an open connection closes: the server queues Event::Disconnect
EnvDisconnect(c) ==
  /\ c \in alive
  /\ alive' = alive \ {c}
  /\ nHub' = nHub + 1
  /\ hub' = Append(hub, HubEvent("Disconnect", c, ""))
  /\ UNCHANGED <<nextId, clients, sent, tpc, tev>>

\* Event::Connect with the insert made before the welcome is sent
ConnectArmInsertFirst(step, c) ==
  IF step = 1
  THEN /\ clients' = clients \cup {c}
       /\ UNCHANGED sent
  ELSE /\ sent' = SendTo(sent, c, data_on_connect, "connect")
       /\ UNCHANGED clients

\* Event::Connect arm: step 1 sends data_on_connect, step 2 inserts the Responder
ConnectArm(step, c) ==
  IF step = 1
  THEN /\ sent' = SendTo(sent, c, data_on_connect, "connect")
       /\ UNCHANGED clients
  ELSE /\ clients' = clients \cup {c}
       /\ UNCHANGED sent

\* poll_event returns Event::Connect; the welcome is sent on the new Responder
TransportConnect ==
  /\ tpc = "poll"
  /\ hub # <<>>
  /\ Head(hub).type = "Connect"
  /\ hub' = Tail(hub)
  /\ tev' = Head(hub)
  /\ ConnectArm(1, Head(hub).id)
  /\ tpc' = "insert"
  /\ UNCHANGED <<alive, nextId, nHub>>

\* clients.insert(client_id, responder)
TransportInsert ==
  /\ tpc = "insert"
  /\ ConnectArm(2, tev.id)
  /\ tpc' = "poll"
  /\ tev' = NoHubEvent
  /\ UNCHANGED <<hub, alive, nextId, nHub>>

\* poll_event returns Event::Disconnect: clients.remove(&client_id)
TransportDisconnect ==
  /\ tpc = "poll"
  /\ hub # <<>>
  /\ Head(hub).type = "Disconnect"
  /\ hub' = Tail(hub)
  /\ clients' = clients \ {Head(hub).id}
  /\ UNCHANGED <<alive, nextId, nHub, sent, tpc, tev>>

\* the echo going to every registered client instead of the sender
EchoToAll(s, registry, c, message) == SendData(s, registry, message, "echo")

\* the Event::Message arm: look the sender up and send the message back on it
Echo(s, registry, c, message) == SendTo(s, c, message, "echo")

\* poll_event returns Event::Message; get(&client_id).unwrap() panics on a miss
TransportMessage ==
  /\ tpc = "poll"
  /\ hub # <<>>
  /\ Head(hub).type = "Message"
  /\ hub' = Tail(hub)
  /\ IF Head(hub).id \in clients
     THEN /\ sent' = Echo(sent, clients, Head(hub).id, Head(hub).msg)
          /\ tpc' = "poll"
     ELSE /\ tpc' = "panicked"
          /\ UNCHANGED sent
  /\ UNCHANGED <<alive, nextId, nHub, clients, tev>>

(* ------------------------ process-detection loop ----------------------- *)

LastEntry(log) == log[Len(log)]
SetLast(log, e) == [log EXCEPT ![Len(log)] = e]
AddOut(log, b) == SetLast(log, [LastEntry(log) EXCEPT !.out = Append(@, b)])

\* the emptiness test left out: the loop goes on whatever the registry holds
RegistryNeverEmpty(registry) == FALSE

\* clients.lock().unwrap().len() == 0
RegistryEmpty(registry) == Cardinality(registry) = 0

\* the session test comparing nothing: every real id counts as a new session
ProcBranchNoDedup(id, active) ==
  IF id = "null"
  THEN IF active = None THEN "recv" ELSE "clear"
  ELSE IF IsSome(active) THEN "close" ELSE "update"

\* the "null" arm clearing even when no session is live
ProcBranchAlwaysClear(id, active) ==
  IF id = "null"
  THEN "clear"
  ELSE IF active # Some(id)
       THEN IF IsSome(active) THEN "close" ELSE "update"
       ELSE "recv"

\* a session change that does not close the old session first
ProcBranchNoClose(id, active) ==
  IF id = "null"
  THEN IF active = None THEN "recv" ELSE "clear"
  ELSE IF active # Some(id) THEN "update" ELSE "recv"

\* where the loop goes once the registry is known not to be empty:
\* the tests on proc_activity.id and active_socket
ProcBranch(id, active) ==
  IF id = "null"
  THEN IF active = None THEN "recv" ELSE "clear"
  ELSE IF active # Some(id)
       THEN IF IsSome(active) THEN "close" ELSE "update"
       ELSE "recv"

\* proc_event_rec.recv(), the registry test, then the choice of branch
ProcRecv(e) ==
  /\ proc_pc = "recv"
  /\ proc_ev' = e
  /\ proc_pc' = IF RegistryEmpty(clients) THEN "recv" ELSE ProcBranch(e.id, active_socket)
  /\ procLog' = Append(procLog,
       [ev |-> e,
        audience |-> IF RegistryEmpty(clients) THEN "none" ELSE "some",
        pre |-> [active_socket |-> active_socket, last_pid |-> last_pid],
        out |-> <<>>])
  /\ UNCHANGED <<last_pid, active_socket>>

\* the empty payload built from last_pid and active_socket
ClosingPayload == empty_activity(UnwrapOr(last_pid, 0), UnwrapOr(active_socket, ""))

\* "null" while a session is live: send_data(empty payload)
ProcSendClear ==
  /\ proc_pc = "clear"
  /\ sent' = SendData(sent, clients, ClosingPayload, "proc")
  /\ procLog' = AddOut(procLog, Broadcast(ClosingPayload))
  /\ proc_pc' = "reset"
  /\ UNCHANGED <<last_pid, active_socket, proc_ev>>

\* the reset after the clearing broadcast forgotten
ProcResetForgotten ==
  /\ proc_pc = "reset"
  /\ proc_pc' = "recv"
  /\ UNCHANGED <<last_pid, active_socket, proc_ev, procLog>>

\* the reset clearing last_pid along with active_socket
ProcResetBoth ==
  /\ proc_pc = "reset"
  /\ active_socket' = None
  /\ last_pid' = None
  /\ proc_pc' = "recv"
  /\ UNCHANGED <<proc_ev, procLog>>

\* *active_socket = None
ProcReset ==
  /\ proc_pc = "reset"
  /\ active_socket' = None
  /\ proc_pc' = "recv"
  /\ UNCHANGED <<last_pid, proc_ev, procLog>>

\* a different session while one is live: send_data(empty payload for the old one)
ProcSendClose ==
  /\ proc_pc = "close"
  /\ sent' = SendData(sent, clients, ClosingPayload, "proc")
  /\ procLog' = AddOut(procLog, Broadcast(ClosingPayload))
  /\ proc_pc' = "update"
  /\ UNCHANGED <<last_pid, active_socket, proc_ev>>

\* *last_pid = proc_activity.pid; *active_socket = Some(proc_activity.id)
ProcUpdate ==
  /\ proc_pc = "update"
  /\ last_pid' = proc_ev.pid
  /\ active_socket' = Some(proc_ev.id)
  /\ proc_pc' = "send"
  /\ UNCHANGED <<proc_ev, procLog>>

\* the loop going back to recv after the state update, the broadcast left out
ProcSendSkipped ==
  /\ proc_pc = "send"
  /\ proc_pc' = "recv"
  /\ UNCHANGED <<sent, last_pid, active_socket, proc_ev, procLog>>

\* send_data(populated payload)
ProcSendPopulated ==
  /\ proc_pc = "send"
  /\ sent' = SendData(sent, clients, proc_payload(proc_ev), "proc")
  /\ procLog' = AddOut(procLog, Broadcast(proc_payload(proc_ev)))
  /\ proc_pc' = "recv"
  /\ UNCHANGED <<last_pid, active_socket, proc_ev>>

(* ------------------------ crate::cmd: fix and serde --------------------- *)

\* ActivityCmd::fix: fills the defaults of the activity in the argument bundle
Fix(cmd) ==
  IF cmd.args = None \/ cmd.args[1].activity = None
  THEN cmd
  ELSE LET activity == cmd.args[1].activity[1]
       IN [cmd EXCEPT !.args = Some([cmd.args[1] EXCEPT !.activity =
             Some([activity EXCEPT !.flags = Some(UnwrapOr(activity.flags, 0))])])]

JsonOptString(o) == IF o = None THEN "null" ELSE "\"" \o o[1] \o "\""
JsonOptU64(o) == IF o = None THEN "null" ELSE U64ToString(o[1])
JsonActivity(o) ==
  IF o = None THEN "null"
  ELSE "{\"application_id\":" \o JsonOptString(o[1].application_id)
       \o ",\"name\":\"" \o o[1].name \o "\",\"flags\":" \o JsonOptU64(o[1].flags) \o "}"
Writable(o) == o = None \/ o[1].name # Unwritable

\* serde_json::to_string(&ActivityPayload): Ok(text) is Some(text), Err is None
PayloadToString(payload) ==
  IF Writable(payload.activity)
  THEN Some("{\"activity\":" \o JsonActivity(payload.activity)
            \o ",\"pid\":" \o JsonOptU64(payload.pid)
            \o ",\"socketId\":" \o JsonOptString(payload.socket_id) \o "}")
  ELSE None

\* serde_json::to_string(&ActivityCmd): Ok(text) is Some(text), Err is None
CmdToString(cmd) ==
  IF cmd.args = None
  THEN Some("{\"application_id\":" \o JsonOptString(cmd.application_id)
            \o ",\"cmd\":\"" \o cmd.cmd \o "\",\"args\":null}")
  ELSE IF Writable(cmd.args[1].activity)
  THEN Some("{\"application_id\":" \o JsonOptString(cmd.application_id)
            \o ",\"cmd\":\"" \o cmd.cmd \o "\",\"args\":{\"pid\":"
            \o JsonOptU64(cmd.args[1].pid) \o ",\"activity\":"
            \o JsonActivity(cmd.args[1].activity) \o "}}")
  ELSE None

(* ------------------------ IPC and socket-command loops ------------------ *)

\* the empty payload keyed the way the process-detection loop keys its own:
\* by the live session when there is one
ActivityOutcomeUsesSession(cmd) ==
  LET fixed == Fix(cmd) IN
  IF fixed.args = None
  THEN None
  ELSE LET args == fixed.args[1] IN
       IF args.activity = None
       THEN Some(empty_activity(UnwrapOr(args.pid, UnwrapOr(last_pid, 0)),
                                UnwrapOr(active_socket, U64ToString(UnwrapOr(args.pid, 0)))))
       ELSE PayloadToString(
              [activity |-> Some([args.activity[1] EXCEPT !.application_id = cmd.application_id]),
               pid |-> args.pid,
               socket_id |-> Some(U64ToString(UnwrapOr(args.pid, 0)))])

\* the populate step without activity.application_id = ipc_activity.application_id
ActivityOutcomeUnstamped(cmd) ==
  LET fixed == Fix(cmd) IN
  IF fixed.args = None
  THEN None
  ELSE LET args == fixed.args[1] IN
       IF args.activity = None
       THEN Some(empty_activity(UnwrapOr(args.pid, 0), U64ToString(UnwrapOr(args.pid, 0))))
       ELSE PayloadToString(
              [activity |-> args.activity,
               pid |-> args.pid,
               socket_id |-> Some(U64ToString(UnwrapOr(args.pid, 0)))])

\* fix(), then the args / activity tests and the serialization shared by the
\* IPC loop and the SET_ACTIVITY arm of the socket-command loop:
\* Some(payload) when the loop calls send_data(payload), None when it does not
ActivityOutcome(cmd) ==
  LET fixed == Fix(cmd) IN
  IF fixed.args = None
  THEN None
  ELSE LET args == fixed.args[1] IN
       IF args.activity = None
       THEN Some(empty_activity(UnwrapOr(args.pid, 0), U64ToString(UnwrapOr(args.pid, 0))))
       ELSE PayloadToString(
              [activity |-> Some([args.activity[1] EXCEPT !.application_id = cmd.application_id]),
               pid |-> args.pid,
               socket_id |-> Some(U64ToString(UnwrapOr(args.pid, 0)))])

\* ipc_event_rec.recv() and the registry test
IpcRecv(e) ==
  /\ ipc_pc = "recv"
  /\ ipc_ev' = e
  /\ ipcCount' = ipcCount + 1
  /\ ipc_pc' = IF RegistryEmpty(clients) THEN "recv" ELSE "handle"
  /\ ipcEntry' = [ev |-> e,
                  audience |-> IF RegistryEmpty(clients) THEN "none" ELSE "some",
                  out |-> <<>>]

\* the rest of the IPC loop's body: at most one send_data
IpcHandle ==
  /\ ipc_pc = "handle"
  /\ LET outcome == ActivityOutcome(ipc_ev) IN
     IF outcome = None
     THEN UNCHANGED <<sent, ipcEntry>>
     ELSE /\ sent' = SendData(sent, clients, outcome[1], "ipc")
          /\ ipcEntry' = [ipcEntry EXCEPT !.out = Append(@, Broadcast(outcome[1]))]
  /\ ipc_pc' = "recv"
  /\ UNCHANGED <<ipc_ev, ipcCount>>

\* the pass-through serializing the event after fix() has been applied to it
PassthroughFixed(cmd) == UnwrapOr(CmdToString(Fix(cmd)), "")

\* a command other than SET_ACTIVITY:
\* serde_json::to_string(&ws_event).unwrap_or("".to_string())
Passthrough(cmd) == UnwrapOr(CmdToString(cmd), "")

WsOutcome(cmd) ==
  IF cmd.cmd # "SET_ACTIVITY" THEN Some(Passthrough(cmd)) ELSE ActivityOutcome(cmd)

\* ws_event_rec.recv() and the registry test
WsRecv(e) ==
  /\ ws_pc = "recv"
  /\ ws_ev' = e
  /\ wsCount' = wsCount + 1
  /\ ws_pc' = IF RegistryEmpty(clients) THEN "recv" ELSE "handle"
  /\ wsEntry' = [ev |-> e,
                 audience |-> IF RegistryEmpty(clients) THEN "none" ELSE "some",
                 out |-> <<>>]

\* the rest of the socket-command loop's body: at most one send_data
WsHandle ==
  /\ ws_pc = "handle"
  /\ LET outcome == WsOutcome(ws_ev) IN
     IF outcome = None
     THEN UNCHANGED <<sent, wsEntry>>
     ELSE /\ sent' = SendData(sent, clients, outcome[1], "ws")
          /\ wsEntry' = [wsEntry EXCEPT !.out = Append(@, Broadcast(outcome[1]))]
  /\ ws_pc' = "recv"
  /\ UNCHANGED <<ws_ev, wsCount>>

(* ------------------------------ specification -------------------------- *)

NoEntry == [ev |-> NoCmd, audience |-> "none", out |-> <<>>]

Init ==
  /\ hub = <<>>
  /\ alive = {}
  /\ nextId = 1
  /\ nHub = 0
  /\ clients = {}
  /\ sent = [c \in Ids |-> <<>>]
  /\ tpc = "poll"
  /\ tev = NoHubEvent
  /\ last_pid = None
  /\ active_socket = None
  /\ proc_pc = "recv"
  /\ proc_ev = NoEvent
  /\ procLog = <<>>
  /\ ipc_pc = "recv"
  /\ ipc_ev = NoCmd
  /\ ipcCount = 0
  /\ ipcEntry = NoEntry
  /\ ws_pc = "recv"
  /\ ws_ev = NoCmd
  /\ wsCount = 0
  /\ wsEntry = NoEntry
  /\ chan = [p \in Producers |-> <<>>]
  /\ arrivals = <<>>
  /\ taken = [p \in Producers |-> <<>>]
  /\ holder = [m \in Mutexes |-> Free]
  /\ poisoned = {}
  /\ iter = [p \in Producers |-> None]
  /\ drop_pc = "live"

\* events the producer loops have received so far
Inputs == Len(procLog) + ipcCount + wsCount

\* the four loops together
Next ==
  \/ nHub < MaxHubEvents /\ EnvConnect /\ UNCHANGED <<procVars, ipcVars, wsVars, fifoVars, lockVars>>
  \/ \E c \in Ids, m \in Messages :
       nHub < MaxHubEvents /\ EnvMessage(c, m) /\ UNCHANGED <<procVars, ipcVars, wsVars, fifoVars, lockVars>>
  \/ \E c \in Ids :
       nHub < MaxHubEvents /\ EnvDisconnect(c) /\ UNCHANGED <<procVars, ipcVars, wsVars, fifoVars, lockVars>>
  \/ TransportConnect /\ UNCHANGED <<procVars, ipcVars, wsVars, fifoVars, lockVars>>
  \/ TransportInsert /\ UNCHANGED <<procVars, ipcVars, wsVars, fifoVars, lockVars>>
  \/ TransportDisconnect /\ UNCHANGED <<procVars, ipcVars, wsVars, fifoVars, lockVars>>
  \/ TransportMessage /\ UNCHANGED <<procVars, ipcVars, wsVars, fifoVars, lockVars>>
  \/ \E e \in ProcEvents :
       Inputs < MaxInputs /\ ProcRecv(e) /\ UNCHANGED <<transportVars, ipcVars, wsVars, fifoVars, lockVars>>
  \/ ProcSendClear /\ UNCHANGED <<registryVars, ipcVars, wsVars, fifoVars, lockVars>>
  \/ ProcReset /\ UNCHANGED <<transportVars, ipcVars, wsVars, fifoVars, lockVars>>
  \/ ProcSendClose /\ UNCHANGED <<registryVars, ipcVars, wsVars, fifoVars, lockVars>>
  \/ ProcUpdate /\ UNCHANGED <<transportVars, ipcVars, wsVars, fifoVars, lockVars>>
  \/ ProcSendPopulated /\ UNCHANGED <<registryVars, ipcVars, wsVars, fifoVars, lockVars>>
  \/ \E e \in IpcEvents :
       Inputs < MaxInputs /\ IpcRecv(e) /\ UNCHANGED <<transportVars, procVars, wsVars, fifoVars, lockVars>>
  \/ IpcHandle /\ UNCHANGED <<registryVars, procVars, wsVars, fifoVars, lockVars>>
  \/ \E e \in WsEvents :
       Inputs < MaxInputs /\ WsRecv(e) /\ UNCHANGED <<transportVars, procVars, ipcVars, fifoVars, lockVars>>
  \/ WsHandle /\ UNCHANGED <<registryVars, procVars, ipcVars, fifoVars, lockVars>>

Spec == Init /\ [][Next]_vars

\* the transport loop and the process-detection loop
NextProc ==
  \/ nHub < MaxProcHubEvents /\ EnvConnect /\ UNCHANGED <<procVars, ipcVars, wsVars, fifoVars, lockVars>>
  \/ \E c \in Ids :
       nHub < MaxProcHubEvents /\ EnvDisconnect(c) /\ UNCHANGED <<procVars, ipcVars, wsVars, fifoVars, lockVars>>
  \/ TransportConnect /\ UNCHANGED <<procVars, ipcVars, wsVars, fifoVars, lockVars>>
  \/ TransportInsert /\ UNCHANGED <<procVars, ipcVars, wsVars, fifoVars, lockVars>>
  \/ TransportDisconnect /\ UNCHANGED <<procVars, ipcVars, wsVars, fifoVars, lockVars>>
  \/ \E e \in ProcEvents :
       Len(procLog) < MaxProcTrace /\ ProcRecv(e) /\ UNCHANGED <<transportVars, ipcVars, wsVars, fifoVars, lockVars>>
  \/ ProcSendClear /\ UNCHANGED <<registryVars, ipcVars, wsVars, fifoVars, lockVars>>
  \/ ProcReset /\ UNCHANGED <<transportVars, ipcVars, wsVars, fifoVars, lockVars>>
  \/ ProcSendClose /\ UNCHANGED <<registryVars, ipcVars, wsVars, fifoVars, lockVars>>
  \/ ProcUpdate /\ UNCHANGED <<transportVars, ipcVars, wsVars, fifoVars, lockVars>>
  \/ ProcSendPopulated /\ UNCHANGED <<registryVars, ipcVars, wsVars, fifoVars, lockVars>>

SpecProc == Init /\ [][NextProc]_vars

\* the transport loop and the IPC loop
NextIpc ==
  \/ nHub < MaxIpcHubEvents /\ EnvConnect /\ UNCHANGED <<procVars, ipcVars, wsVars, fifoVars, lockVars>>
  \/ \E c \in Ids, m \in Messages :
       nHub < MaxIpcHubEvents /\ EnvMessage(c, m) /\ UNCHANGED <<procVars, ipcVars, wsVars, fifoVars, lockVars>>
  \/ \E c \in Ids :
       nHub < MaxIpcHubEvents /\ EnvDisconnect(c) /\ UNCHANGED <<procVars, ipcVars, wsVars, fifoVars, lockVars>>
  \/ TransportConnect /\ UNCHANGED <<procVars, ipcVars, wsVars, fifoVars, lockVars>>
  \/ TransportInsert /\ UNCHANGED <<procVars, ipcVars, wsVars, fifoVars, lockVars>>
  \/ TransportDisconnect /\ UNCHANGED <<procVars, ipcVars, wsVars, fifoVars, lockVars>>
  \/ TransportMessage /\ UNCHANGED <<procVars, ipcVars, wsVars, fifoVars, lockVars>>
  \/ \E e \in IpcEvents :
       ipcCount < MaxIpcEvents /\ IpcRecv(e) /\ UNCHANGED <<transportVars, procVars, wsVars, fifoVars, lockVars>>
  \/ IpcHandle /\ UNCHANGED <<registryVars, procVars, wsVars, fifoVars, lockVars>>

SpecIpc == Init /\ [][NextIpc]_vars

\* the events of the scenario of the specification, section 8, in order
Scenario ==
  << [id |-> "null", name |-> "",     timestamp |-> None, pid |-> None],
     [id |-> "123",  name |-> "Game", timestamp |-> None, pid |-> Some(42)],
     [id |-> "123",  name |-> "Game", timestamp |-> None, pid |-> Some(42)],
     [id |-> "null", name |-> "",     timestamp |-> None, pid |-> None] >>

\* the transport loop, and the process-detection loop fed the scenario's events
NextScenario ==
  \/ nHub < MaxScenarioHubEvents /\ EnvConnect /\ UNCHANGED <<procVars, ipcVars, wsVars, fifoVars, lockVars>>
  \/ \E c \in Ids :
       nHub < MaxScenarioHubEvents /\ EnvDisconnect(c) /\ UNCHANGED <<procVars, ipcVars, wsVars, fifoVars, lockVars>>
  \/ TransportConnect /\ UNCHANGED <<procVars, ipcVars, wsVars, fifoVars, lockVars>>
  \/ TransportInsert /\ UNCHANGED <<procVars, ipcVars, wsVars, fifoVars, lockVars>>
  \/ TransportDisconnect /\ UNCHANGED <<procVars, ipcVars, wsVars, fifoVars, lockVars>>
  \/ Len(procLog) < Len(Scenario) /\ ProcRecv(Scenario[Len(procLog) + 1])
       /\ UNCHANGED <<transportVars, ipcVars, wsVars, fifoVars, lockVars>>
  \/ ProcSendClear /\ UNCHANGED <<registryVars, ipcVars, wsVars, fifoVars, lockVars>>
  \/ ProcReset /\ UNCHANGED <<transportVars, ipcVars, wsVars, fifoVars, lockVars>>
  \/ ProcUpdate /\ UNCHANGED <<transportVars, ipcVars, wsVars, fifoVars, lockVars>>
  \/ ProcSendPopulated /\ UNCHANGED <<registryVars, ipcVars, wsVars, fifoVars, lockVars>>

SpecScenario == Init /\ [][NextScenario]_vars

(* ------------------------ the producer channels ------------------------ *)

\* the events sent into the channels where the order of arrival is followed:
\* two events per channel, told apart by the payloads they lead to
ChannelEvents ==
  [ p \in Producers |->
      CASE p = "ipc"  -> { ActivityCmd("SET_ACTIVITY", Some(CmdArgs(None, None))),
                           ActivityCmd("SET_ACTIVITY", Some(CmdArgs(Some(42), None))) }
        [] p = "proc" -> { [id |-> "123", name |-> "Game", timestamp |-> None, pid |-> Some(42)],
                           [id |-> "null", name |-> "", timestamp |-> None, pid |-> None] }
        [] p = "ws"   -> { ActivityCmd("DISPATCH", None),
                           ActivityCmd("SET_ACTIVITY", Some(CmdArgs(Some(7), None))) } ]

\* the sender half of a channel: the event joins the end of the queue
EnvSend(p, e) ==
  /\ chan' = [chan EXCEPT ![p] = Append(@, e)]
  /\ arrivals' = Append(arrivals, [src |-> p, ev |-> e])
  /\ UNCHANGED taken

\* a receive that hands out the newest event of the queue
RecvNewest(q) == [ev |-> q[Len(q)], rest |-> SubSeq(q, 1, Len(q) - 1)]

\* Receiver::recv on a queue that is not empty: the oldest event, and what stays
Recv(q) == [ev |-> Head(q), rest |-> Tail(q)]

\* X_event_rec.lock().unwrap().recv().unwrap() with an event waiting
ChannelRecv(p) ==
  /\ chan[p] # <<>>
  /\ chan' = [chan EXCEPT ![p] = Recv(@).rest]
  /\ taken' = [taken EXCEPT ![p] = Append(@, Recv(chan[p]).ev)]
  /\ UNCHANGED arrivals

\* the transport loop accepting connections, and the three producer loops fed
\* through their channels
NextFifo ==
  \/ nHub < MaxFifoHubEvents /\ EnvConnect /\ UNCHANGED <<procVars, ipcVars, wsVars, fifoVars, lockVars>>
  \/ TransportConnect /\ UNCHANGED <<procVars, ipcVars, wsVars, fifoVars, lockVars>>
  \/ TransportInsert /\ UNCHANGED <<procVars, ipcVars, wsVars, fifoVars, lockVars>>
  \/ \E p \in Producers : \E e \in ChannelEvents[p] :
       Len(arrivals) < MaxFifoEvents /\ EnvSend(p, e)
         /\ UNCHANGED <<transportVars, procVars, ipcVars, wsVars, lockVars>>
  \/ ChannelRecv("proc") /\ ProcRecv(Recv(chan["proc"]).ev)
       /\ UNCHANGED <<transportVars, ipcVars, wsVars, lockVars>>
  \/ ProcSendClear /\ UNCHANGED <<registryVars, ipcVars, wsVars, fifoVars, lockVars>>
  \/ ProcReset /\ UNCHANGED <<transportVars, ipcVars, wsVars, fifoVars, lockVars>>
  \/ ProcUpdate /\ UNCHANGED <<transportVars, ipcVars, wsVars, fifoVars, lockVars>>
  \/ ProcSendPopulated /\ UNCHANGED <<registryVars, ipcVars, wsVars, fifoVars, lockVars>>
  \/ ChannelRecv("ipc") /\ IpcRecv(Recv(chan["ipc"]).ev)
       /\ UNCHANGED <<transportVars, procVars, wsVars, lockVars>>
  \/ IpcHandle /\ UNCHANGED <<registryVars, procVars, wsVars, fifoVars, lockVars>>
  \/ ChannelRecv("ws") /\ WsRecv(Recv(chan["ws"]).ev)
       /\ UNCHANGED <<transportVars, procVars, ipcVars, lockVars>>
  \/ WsHandle /\ UNCHANGED <<registryVars, procVars, ipcVars, fifoVars, lockVars>>

SpecFifo == Init /\ [][NextFifo]_vars

(* ------------------------ the mutexes, step by step --------------------- *)

\* the events the producer loops are fed where the mutexes are followed
LockEvents ==
  [ p \in Producers |->
      CASE p = "ipc"  -> { ActivityCmd("SET_ACTIVITY", Some(CmdArgs(Some(42), None))) }
        [] p = "proc" -> { [id |-> "123", name |-> "Game", timestamp |-> None, pid |-> Some(42)],
                           [id |-> "456", name |-> "Editor", timestamp |-> None, pid |-> None],
                           [id |-> "null", name |-> "", timestamp |-> None, pid |-> None] }
        [] p = "ws"   -> { ActivityCmd("DISPATCH", None) } ]

\* the hub hands over a Message for an id that has had no Connect (the id the
\* server would give next): the lookup in the registry will miss
EnvStrayMessage(m) ==
  /\ nHub' = nHub + 1
  /\ hub' = Append(hub, HubEvent("Message", nextId, m))
  /\ UNCHANGED <<alive, nextId, clients, sent, tpc, tev>>

\* a panic that does not unwind: the guards the transport loop held stay locked
GuardsLeakedOnPanic ==
  [holder |-> [m \in Mutexes |-> "transport"], poisoned |-> poisoned]

\* the panic of get(&client_id).unwrap(): unwinding drops the registry guard
\* of line 93 and the server guard of line 77, which unlocks and poisons both
GuardsAfterPanic ==
  [holder |-> [m \in Mutexes |-> Free], poisoned |-> poisoned \cup Mutexes]

\* clone.server.lock().unwrap() at the top of the transport loop
LockServer ==
  /\ tpc = "poll"
  /\ holder["server"] = Free
  /\ holder' = [holder EXCEPT !["server"] = "transport"]
  /\ UNCHANGED <<transportVars, poisoned, iter, drop_pc>>

\* poll_event returns Event::Connect to the loop holding the server guard
HeldConnect ==
  /\ holder["server"] = "transport"
  /\ TransportConnect
  /\ UNCHANGED lockVars

\* clients.lock().unwrap().insert(..); the match ends and the server guard goes
HeldInsert ==
  /\ holder["server"] = "transport"
  /\ holder["clients"] = Free
  /\ TransportInsert
  /\ holder' = [holder EXCEPT !["server"] = Free]
  /\ UNCHANGED <<poisoned, iter, drop_pc>>

\* poll_event returns Event::Message: the echo under both guards, or the panic
HeldMessage ==
  /\ holder["server"] = "transport"
  /\ holder["clients"] = Free
  /\ TransportMessage
  /\ IF Head(hub).id \in clients
     THEN /\ holder' = [holder EXCEPT !["server"] = Free]
          /\ UNCHANGED poisoned
     ELSE /\ holder' = GuardsAfterPanic.holder
          /\ poisoned' = GuardsAfterPanic.poisoned
  /\ UNCHANGED <<iter, drop_pc>>

\* the thread of a panicked loop unwinds and drops its ClientConnector clone:
\* Drop unwraps the lock of the server mutex, which is poisoned, and a panic
\* while unwinding aborts the process
ProcessAbort ==
  /\ "panicked" \in {tpc, ipc_pc, proc_pc, ws_pc}
  /\ holder["server"] = Free
  /\ "server" \in poisoned
  /\ tpc' = "aborted"
  /\ ipc_pc' = "aborted"
  /\ proc_pc' = "aborted"
  /\ ws_pc' = "aborted"
  /\ drop_pc' = "aborted"
  /\ UNCHANGED <<hub, alive, nextId, nHub, clients, sent, tev, last_pid, active_socket,
                 proc_ev, procLog, ipc_ev, ipcCount, ipcEntry, ws_ev, wsCount, wsEntry,
                 fifoVars, holder, poisoned, iter>>

\* send_data taking the entries under the lock and letting go of it before
\* the sends are made
BeginSendUnlocked(p, data) ==
  /\ holder["clients"] = Free
  /\ iter' = [iter EXCEPT ![p] = Some([data |-> data, todo |-> clients])]
  /\ UNCHANGED <<holder, poisoned, drop_pc>>

\* send_data, line 310: self.clients.lock().unwrap().iter(); the guard lives
\* as long as the for loop does
BeginSend(p, data) ==
  /\ holder["clients"] = Free
  /\ holder' = [holder EXCEPT !["clients"] = p]
  /\ iter' = [iter EXCEPT ![p] = Some([data |-> data, todo |-> clients])]
  /\ UNCHANGED <<poisoned, drop_pc>>

\* one turn of the for loop: Responder::send on an entry not yet visited
SendNext(p) ==
  /\ iter[p] # None
  /\ \E c \in iter[p][1].todo :
       /\ sent' = SendTo(sent, c, iter[p][1].data, p)
       /\ iter' = [iter EXCEPT ![p] = Some([data |-> iter[p][1].data,
                                            todo |-> iter[p][1].todo \ {c}])]
  /\ UNCHANGED <<holder, poisoned, drop_pc>>

\* the for loop is over: the registry guard is dropped
EndSend(p) ==
  /\ iter[p] # None
  /\ iter[p][1].todo = {}
  /\ iter' = [iter EXCEPT ![p] = None]
  /\ holder' = [holder EXCEPT !["clients"] = Free]
  /\ UNCHANGED <<sent, poisoned, drop_pc>>

\* the process-detection loop, each clients.lock().unwrap() waiting for the
\* mutex and panicking when it is poisoned
LockedProcRecv(e) ==
  /\ iter["proc"] = None
  /\ holder["clients"] = Free
  /\ IF "clients" \in poisoned
     THEN /\ proc_pc = "recv"
          /\ proc_pc' = "panicked"
          /\ proc_ev' = e
          /\ UNCHANGED <<last_pid, active_socket, procLog>>
     ELSE ProcRecv(e)
  /\ UNCHANGED lockVars

LockedProcSendClear ==
  /\ proc_pc = "clear"
  /\ iter["proc"] = None
  /\ IF "clients" \in poisoned
     THEN /\ holder["clients"] = Free
          /\ proc_pc' = "panicked"
          /\ UNCHANGED <<procLog, lockVars>>
     ELSE /\ BeginSend("proc", ClosingPayload)
          /\ procLog' = AddOut(procLog, Broadcast(ClosingPayload))
          /\ proc_pc' = "reset"
  /\ UNCHANGED <<sent, last_pid, active_socket, proc_ev>>

LockedProcReset == iter["proc"] = None /\ ProcReset /\ UNCHANGED lockVars

LockedProcSendClose ==
  /\ proc_pc = "close"
  /\ iter["proc"] = None
  /\ IF "clients" \in poisoned
     THEN /\ holder["clients"] = Free
          /\ proc_pc' = "panicked"
          /\ UNCHANGED <<procLog, lockVars>>
     ELSE /\ BeginSend("proc", ClosingPayload)
          /\ procLog' = AddOut(procLog, Broadcast(ClosingPayload))
          /\ proc_pc' = "update"
  /\ UNCHANGED <<sent, last_pid, active_socket, proc_ev>>

LockedProcUpdate == iter["proc"] = None /\ ProcUpdate /\ UNCHANGED lockVars

LockedProcSendPopulated ==
  /\ proc_pc = "send"
  /\ iter["proc"] = None
  /\ IF "clients" \in poisoned
     THEN /\ holder["clients"] = Free
          /\ proc_pc' = "panicked"
          /\ UNCHANGED <<procLog, lockVars>>
     ELSE /\ BeginSend("proc", proc_payload(proc_ev))
          /\ procLog' = AddOut(procLog, Broadcast(proc_payload(proc_ev)))
          /\ proc_pc' = "recv"
  /\ UNCHANGED <<sent, last_pid, active_socket, proc_ev>>

\* the IPC loop, likewise
LockedIpcRecv(e) ==
  /\ iter["ipc"] = None
  /\ holder["clients"] = Free
  /\ IF "clients" \in poisoned
     THEN /\ ipc_pc = "recv"
          /\ ipc_pc' = "panicked"
          /\ ipc_ev' = e
          /\ UNCHANGED <<ipcCount, ipcEntry>>
     ELSE IpcRecv(e)
  /\ UNCHANGED lockVars

LockedIpcHandle ==
  /\ ipc_pc = "handle"
  /\ iter["ipc"] = None
  /\ LET outcome == ActivityOutcome(ipc_ev) IN
     IF outcome = None
     THEN /\ ipc_pc' = "recv"
          /\ UNCHANGED <<ipcEntry, lockVars>>
     ELSE IF "clients" \in poisoned
     THEN /\ holder["clients"] = Free
          /\ ipc_pc' = "panicked"
          /\ UNCHANGED <<ipcEntry, lockVars>>
     ELSE /\ BeginSend("ipc", outcome[1])
          /\ ipcEntry' = [ipcEntry EXCEPT !.out = Append(@, Broadcast(outcome[1]))]
          /\ ipc_pc' = "recv"
  /\ UNCHANGED <<sent, ipc_ev, ipcCount>>

\* the socket-command loop, likewise
LockedWsRecv(e) ==
  /\ iter["ws"] = None
  /\ holder["clients"] = Free
  /\ IF "clients" \in poisoned
     THEN /\ ws_pc = "recv"
          /\ ws_pc' = "panicked"
          /\ ws_ev' = e
          /\ UNCHANGED <<wsCount, wsEntry>>
     ELSE WsRecv(e)
  /\ UNCHANGED lockVars

LockedWsHandle ==
  /\ ws_pc = "handle"
  /\ iter["ws"] = None
  /\ LET outcome == WsOutcome(ws_ev) IN
     IF outcome = None
     THEN /\ ws_pc' = "recv"
          /\ UNCHANGED <<wsEntry, lockVars>>
     ELSE IF "clients" \in poisoned
     THEN /\ holder["clients"] = Free
          /\ ws_pc' = "panicked"
          /\ UNCHANGED <<wsEntry, lockVars>>
     ELSE /\ BeginSend("ws", outcome[1])
          /\ wsEntry' = [wsEntry EXCEPT !.out = Append(@, Broadcast(outcome[1]))]
          /\ ws_pc' = "recv"
  /\ UNCHANGED <<sent, ws_ev, wsCount>>

\* the owner of the handle start() was called on lets go of it: Drop::drop runs
DropCall ==
  /\ drop_pc = "live"
  /\ drop_pc' = "lock"
  /\ UNCHANGED <<holder, poisoned, iter>>

\* drop(self.server.lock().unwrap()): the lock is taken and given back at once
DropLock ==
  /\ drop_pc = "lock"
  /\ holder["server"] = Free
  /\ drop_pc' = IF "server" \in poisoned THEN "panicked" ELSE "done"
  /\ UNCHANGED <<holder, poisoned, iter>>

\* the four loops and Drop, with the server and registry mutexes followed
NextLocks ==
  \/ nHub < MaxLockHubEvents /\ EnvConnect
       /\ UNCHANGED <<procVars, ipcVars, wsVars, fifoVars, lockVars>>
  \/ \E c \in Ids, m \in Messages :
       nHub < MaxLockHubEvents /\ EnvMessage(c, m)
         /\ UNCHANGED <<procVars, ipcVars, wsVars, fifoVars, lockVars>>
  \/ \E m \in Messages :
       nHub < MaxLockHubEvents /\ EnvStrayMessage(m)
         /\ UNCHANGED <<procVars, ipcVars, wsVars, fifoVars, lockVars>>
  \/ LockServer /\ UNCHANGED <<procVars, ipcVars, wsVars, fifoVars>>
  \/ HeldConnect /\ UNCHANGED <<procVars, ipcVars, wsVars, fifoVars>>
  \/ HeldInsert /\ UNCHANGED <<procVars, ipcVars, wsVars, fifoVars>>
  \/ HeldMessage /\ UNCHANGED <<procVars, ipcVars, wsVars, fifoVars>>
  \/ ProcessAbort
  \/ \E e \in LockEvents["proc"] :
       Inputs < MaxLockInputs /\ LockedProcRecv(e)
         /\ UNCHANGED <<transportVars, ipcVars, wsVars, fifoVars>>
  \/ LockedProcSendClear /\ UNCHANGED <<registryVars, ipcVars, wsVars, fifoVars>>
  \/ LockedProcReset /\ UNCHANGED <<transportVars, ipcVars, wsVars, fifoVars>>
  \/ LockedProcSendClose /\ UNCHANGED <<registryVars, ipcVars, wsVars, fifoVars>>
  \/ LockedProcUpdate /\ UNCHANGED <<transportVars, ipcVars, wsVars, fifoVars>>
  \/ LockedProcSendPopulated /\ UNCHANGED <<registryVars, ipcVars, wsVars, fifoVars>>
  \/ \E e \in LockEvents["ipc"] :
       Inputs < MaxLockInputs /\ LockedIpcRecv(e)
         /\ UNCHANGED <<transportVars, procVars, wsVars, fifoVars>>
  \/ LockedIpcHandle /\ UNCHANGED <<registryVars, procVars, wsVars, fifoVars>>
  \/ \E e \in LockEvents["ws"] :
       Inputs < MaxLockInputs /\ LockedWsRecv(e)
         /\ UNCHANGED <<transportVars, procVars, ipcVars, fifoVars>>
  \/ LockedWsHandle /\ UNCHANGED <<registryVars, procVars, ipcVars, fifoVars>>
  \/ \E p \in Producers :
       SendNext(p) /\ UNCHANGED <<registryVars, procVars, ipcVars, wsVars, fifoVars>>
  \/ \E p \in Producers :
       EndSend(p) /\ UNCHANGED <<transportVars, procVars, ipcVars, wsVars, fifoVars>>
  \/ DropCall /\ UNCHANGED <<transportVars, procVars, ipcVars, wsVars, fifoVars>>
  \/ DropLock /\ UNCHANGED <<transportVars, procVars, ipcVars, wsVars, fifoVars>>

SpecLocks == Init /\ [][NextLocks]_vars

(* ------------------------------ properties ----------------------------- *)

\* the process-detection loop has finished with the i-th event it received
Finished(i) == i < Len(procLog) \/ proc_pc = "recv"

Presence == [active_socket |-> active_socket, last_pid |-> last_pid]

\* last_pid / active_socket once the loop has finished with its i-th event
After(i) == IF i < Len(procLog) THEN procLog[i + 1].pre ELSE Presence

\* the payloads of a sequence of send_data calls, in order
Payloads(out) == [k \in 1..Len(out) |-> out[k].data]

\* every send_data call the process-detection loop has made, in order
RECURSIVE Flatten(_)
Flatten(log) == IF log = <<>> THEN <<>> ELSE Flatten(SubSeq(log, 1, Len(log) - 1)) \o LastEntry(log).out
ProcBroadcasts == Flatten(procLog)

\* the empty payloads the process-detection loop can build
IsEmptyPayload(data) ==
  \E p \in {0} \cup {e.pid[1] : e \in {x \in ProcEvents : IsSome(x.pid)}},
     id \in {e.id : e \in ProcEvents} :
    data = empty_activity(p, id)

\* C1: handled with a client registered while session A is live, an event for
\* another real session B makes the loop call send_data exactly twice: the
\* empty payload (pid last_pid or 0, socketId A), then the populated payload of
\* B; afterwards active_socket = Some(B) and last_pid is the event's pid.
EdgeClosing ==
  \A i \in 1..Len(procLog) :
    LET e == procLog[i] IN
    ( /\ Finished(i)
      /\ e.audience = "some"
      /\ IsSome(e.pre.active_socket)
      /\ e.ev.id # "null"
      /\ e.pre.active_socket # Some(e.ev.id) )
    => /\ Payloads(e.out) =
            << empty_activity(UnwrapOr(e.pre.last_pid, 0), e.pre.active_socket[1]),
               proc_payload(e.ev) >>
       /\ After(i) = [active_socket |-> Some(e.ev.id), last_pid |-> e.ev.pid]

\* a session change has been handled: 456 (no pid) live, then 123 arrives
EdgeClosingWitness ==
  \E i \in 1..Len(procLog) :
    /\ Finished(i)
    /\ procLog[i].audience = "some"
    /\ procLog[i].pre = [active_socket |-> Some("456"), last_pid |-> None]
    /\ procLog[i].ev.id = "123"
    /\ Len(procLog[i].out) = 2

\* C2: handled with a client registered, an event whose id is the live session
\* makes no send_data call and leaves active_socket and last_pid as they were,
\* whatever its name, timestamp and pid; so of two events in a row with the
\* same real id, the second adds nothing to the one populated payload of the
\* first (the only broadcast of the two when the loop was idle before).
Idempotence ==
  /\ \A i \in 1..Len(procLog) :
       LET e == procLog[i] IN
       (Finished(i) /\ e.audience = "some" /\ e.pre.active_socket = Some(e.ev.id))
       => (e.out = <<>> /\ After(i) = e.pre)
  /\ \A i \in 1..(Len(procLog) - 1) :
       LET e == procLog[i]
           r == procLog[i + 1]
       IN
       ( /\ Finished(i + 1)
         /\ e.audience = "some" /\ r.audience = "some"
         /\ e.ev.id # "null" /\ r.ev.id = e.ev.id
         /\ e.pre.active_socket # Some(e.ev.id) )
       => /\ r.out = <<>>
          /\ Cardinality({k \in 1..Len(e.out) : ~IsEmptyPayload(e.out[k].data)}) = 1
          /\ (e.pre.active_socket = None => Len(e.out) = 1)
          /\ After(i + 1) = After(i)

\* the same session reported twice in a row, the repeat with another name,
\* timestamp and pid
IdempotenceWitness ==
  \E i \in 1..(Len(procLog) - 1) :
    /\ Finished(i + 1)
    /\ procLog[i].audience = "some" /\ procLog[i + 1].audience = "some"
    /\ procLog[i].pre.active_socket = None
    /\ procLog[i].ev = [id |-> "123", name |-> "Game", timestamp |-> None, pid |-> Some(42)]
    /\ procLog[i + 1].ev.id = "123"
    /\ procLog[i + 1].ev.name = "Game II"

\* C3: handled with a client registered, a "null" event while session A is live
\* makes exactly one send_data call, the empty payload with pid last_pid (0 when
\* there is none) and socketId A, and leaves active_socket = None; a "null"
\* event while idle makes no call and changes nothing.
ClearOnNull ==
  \A i \in 1..Len(procLog) :
    LET e == procLog[i] IN
    (Finished(i) /\ e.audience = "some" /\ e.ev.id = "null")
    => IF IsSome(e.pre.active_socket)
       THEN /\ Payloads(e.out) =
                 << empty_activity(UnwrapOr(e.pre.last_pid, 0), e.pre.active_socket[1]) >>
            /\ After(i).active_socket = None
       ELSE /\ e.out = <<>>
            /\ After(i) = e.pre

\* "null" handled while a session was live, then "null" again while idle
ClearOnNullWitness ==
  \E i \in 1..(Len(procLog) - 1) :
    /\ Finished(i + 1)
    /\ procLog[i].audience = "some" /\ procLog[i + 1].audience = "some"
    /\ procLog[i].ev.id = "null" /\ procLog[i + 1].ev.id = "null"
    /\ IsSome(procLog[i].pre.active_socket)
    /\ Len(procLog[i].out) = 1

\* the scenario's four events have all been handled, each with a client registered
ScenarioHandled ==
  /\ Len(procLog) = Len(Scenario)
  /\ proc_pc = "recv"
  /\ \A i \in 1..Len(procLog) : procLog[i].audience = "some"

\* the populated payload as the specification writes it: start is the string "0"
ScenarioPopulatedClaimed ==
  "\n          {\n            \"activity\": {\n              \"application_id\": \"123\",\n              \"name\": \"Game\",\n              \"timestamps\": {\n                \"start\": \"0\"\n              },\n              \"type\": 0,\n              \"metadata\": {},\n              \"flags\": 0\n            },\n            \"pid\": 42,\n            \"socketId\": \"123\"\n          }\n          "

\* the populated payload with start the number 0
ScenarioPopulated ==
  "\n          {\n            \"activity\": {\n              \"application_id\": \"123\",\n              \"name\": \"Game\",\n              \"timestamps\": {\n                \"start\": 0\n              },\n              \"type\": 0,\n              \"metadata\": {},\n              \"flags\": 0\n            },\n            \"pid\": 42,\n            \"socketId\": \"123\"\n          }\n          "

\* {activity: null, pid: 42, socketId: "123"}
ScenarioEmpty ==
  "\n    {\n      \"activity\": null,\n      \"pid\": 42,\n      \"socketId\": \"123\"\n    }\n  "

\* C4 as stated: the scenario yields the populated payload with
\* timestamps.start the string "0", then the empty payload, and nothing else.
ScenarioAsClaimed ==
  ScenarioHandled =>
    Payloads(ProcBroadcasts) = << ScenarioPopulatedClaimed, ScenarioEmpty >>

\* C4: the scenario yields exactly two send_data calls: for the second event the
\* populated payload with application_id "123", name "Game", timestamps.start
\* the number 0 (the text 0 is written without quotes), type 0, metadata {},
\* flags 0, pid 42, socketId "123"; for the fourth the empty payload with pid 42
\* and socketId "123"; none for the first "null" and none for the repeat.
ScenarioBroadcasts ==
  ScenarioHandled =>
    /\ Payloads(ProcBroadcasts) = << ScenarioPopulated, ScenarioEmpty >>
    /\ procLog[1].out = <<>>
    /\ Payloads(procLog[2].out) = << ScenarioPopulated >>
    /\ procLog[3].out = <<>>
    /\ Payloads(procLog[4].out) = << ScenarioEmpty >>

\* the scenario has run to its end with a client registered at every event
ScenarioWitness == ScenarioHandled /\ Len(ProcBroadcasts) = 2

\* active_socket is Some exactly when the last send_data call of the
\* process-detection loop carried a populated payload
LiveIffAnnounced ==
  IsSome(active_socket) <=>
    ( /\ ProcBroadcasts # <<>>
      /\ ~IsEmptyPayload(ProcBroadcasts[Len(ProcBroadcasts)].data) )

\* C10 as stated: the equivalence holds in every reachable state.
PresenceInvariantAlways == LiveIffAnnounced

\* C10: whenever the process-detection loop is between two events (waiting in
\* recv), active_socket is Some if and only if the loop's most recent broadcast
\* was a populated payload, not yet followed by the empty payload that clears it.
PresenceInvariant == proc_pc = "recv" => LiveIffAnnounced

\* between two events, a session is live after it was announced, closed and
\* another one announced
PresenceInvariantWitness ==
  /\ proc_pc = "recv"
  /\ IsSome(active_socket)
  /\ Len(ProcBroadcasts) = 3

\* C5: an event a producer loop receives while the registry is empty ends
\* there: the loop is back at its recv with no send_data call made and no
\* Responder::send on any connection, whatever the event holds (a missing
\* argument bundle, an activity that cannot be serialized), and last_pid and
\* active_socket are as they were.
NoAudience ==
  [][ /\ (clients = {} /\ ipcCount' = ipcCount + 1)
           => /\ ipc_pc' = "recv"
              /\ ipcEntry'.out = <<>>
              /\ sent' = sent
              /\ UNCHANGED <<last_pid, active_socket>>
      /\ (clients = {} /\ wsCount' = wsCount + 1)
           => /\ ws_pc' = "recv"
              /\ wsEntry'.out = <<>>
              /\ sent' = sent
              /\ UNCHANGED <<last_pid, active_socket>>
      /\ (clients = {} /\ Len(procLog') = Len(procLog) + 1)
           => /\ proc_pc' = "recv"
              /\ LastEntry(procLog').out = <<>>
              /\ sent' = sent
              /\ UNCHANGED <<last_pid, active_socket>>
    ]_vars

\* a session is live, the only client has gone, and the next event ("null") was
\* dropped: the session is still live
NoAudienceWitness ==
  /\ Len(procLog) = 2
  /\ proc_pc = "recv"
  /\ procLog[1].audience = "some"
  /\ procLog[2].audience = "none"
  /\ procLog[2].ev.id = "null"
  /\ procLog[2].out = <<>>
  /\ active_socket = Some(procLog[1].ev.id)

\* the send_data call that makes a producer loop's record grow from before to after
SendDataCall(before, after) ==
  Len(after) = Len(before) + 1 =>
    LET data == after[Len(after)].data
        attempted == {c \in Ids : Len(sent'[c]) = Len(sent[c]) + 1}
    IN /\ attempted = clients
       /\ Cardinality(attempted) = Cardinality(clients)
       /\ \A c \in attempted :
            /\ sent'[c][Len(sent'[c])].data = data
            /\ SubSeq(sent'[c], 1, Len(sent[c])) = sent[c]
       /\ \A c \in Ids \ attempted : sent'[c] = sent[c]

\* C6: one send_data call with N connections in the registry makes exactly N
\* Responder::send calls, one on each registered connection and each with the
\* payload of the call, whether or not the sends on other connections fail.
FanOut ==
  [][ /\ SendDataCall(ipcEntry.out, ipcEntry'.out)
      /\ SendDataCall(wsEntry.out, wsEntry'.out)
      /\ (Len(procLog') = Len(procLog) /\ procLog # <<>>)
           => SendDataCall(LastEntry(procLog).out, LastEntry(procLog').out)
    ]_vars

\* a broadcast went to two registered connections, the first of them closed
\* already: the send on it failed, the send on the other was made and taken
FanOutWitness ==
  /\ Len(ipcEntry.out) = 1
  /\ ipcEntry.out[1].to = {1, 2}
  /\ sent[1][Len(sent[1])] = [data |-> ipcEntry.out[1].data, ok |-> FALSE, by |-> "ipc"]
  /\ sent[2][Len(sent[2])] = [data |-> ipcEntry.out[1].data, ok |-> TRUE, by |-> "ipc"]

\* C7: handled with a client registered, a socket command whose tag is not
\* "SET_ACTIVITY" makes exactly one send_data call, and when the event can be
\* serialized the payload is the serialized form of the event as it was
\* received (fix() has not touched it).
PassthroughCorrect ==
  ( /\ wsCount > 0
    /\ ws_pc = "recv"
    /\ wsEntry.audience = "some"
    /\ wsEntry.ev.cmd # "SET_ACTIVITY" )
  => /\ Len(wsEntry.out) = 1
     /\ IsSome(CmdToString(wsEntry.ev))
          => wsEntry.out[1].data = CmdToString(wsEntry.ev)[1]

\* a DISPATCH command carrying an activity that fix() would change was passed on
PassthroughWitness ==
  /\ ws_pc = "recv"
  /\ wsEntry.audience = "some"
  /\ wsEntry.ev.cmd = "DISPATCH"
  /\ IsSome(wsEntry.ev.args)
  /\ Fix(wsEntry.ev) # wsEntry.ev
  /\ Len(wsEntry.out) = 1
  /\ wsEntry.out[1].to # {}

\* connection c has been taken from the EventHub by the transport loop
Polled(c) == c < nextId /\ \A k \in 1..Len(hub) : hub[k] # HubEvent("Connect", c, "")

\* C8: on every connection the transport loop has accepted, the first
\* Responder::send is the welcome payload and no later one is: no broadcast of
\* any producer loop and no echo reaches a connection before its welcome.
WelcomeFirst ==
  \A c \in Ids :
    /\ (Polled(c) \/ c \in clients) => sent[c] # <<>>
    /\ sent[c] # <<>> =>
         /\ sent[c][1].by = "connect"
         /\ sent[c][1].data = data_on_connect
         /\ \A k \in 2..Len(sent[c]) : sent[c][k].by # "connect"

\* a connection got its welcome, then an echo and a broadcast
WelcomeFirstWitness ==
  \E c \in Ids :
    /\ Len(sent[c]) = 3
    /\ \E k \in 2..3 : sent[c][k].by = "echo"
    /\ \E k \in 2..3 : sent[c][k].by \in {"ipc", "proc", "ws"}

\* C9: the transport loop answers an inbound message of a registered connection
\* with one Responder::send of the same message on the same connection, sends
\* nothing on any other connection, and leaves the registry, last_pid and
\* active_socket as they were.
EchoBack ==
  [][ (tpc = "poll" /\ hub # <<>> /\ hub' = Tail(hub) /\ Head(hub).type = "Message")
      => LET c == Head(hub).id IN
         c \in clients =>
           /\ sent'[c] = Append(sent[c], [data |-> Head(hub).msg, ok |-> c \in alive, by |-> "echo"])
           /\ \A d \in Ids \ {c} : sent'[d] = sent[d]
           /\ clients' = clients
           /\ UNCHANGED <<last_pid, active_socket>>
    ]_vars

\* a message was echoed to its sender while another connection was registered
EchoBackWitness ==
  \E c \in clients, d \in clients :
    /\ c # d
    /\ sent[c][Len(sent[c])].by = "echo"
    /\ sent[c][Len(sent[c])].data \in Messages
    /\ \A k \in 1..Len(sent[d]) : sent[d][k].by # "echo"

\* the step that ends the handling of "null" while a session is live
ClearStep == proc_pc = "reset" /\ proc_pc' = "recv"

\* C12 as stated: the clearing transition leaves (None, None), and neither
\* active_socket nor last_pid goes from Some to None in any other step.
PresenceResetAsClaimed ==
  [][ /\ ClearStep => (active_socket' = None /\ last_pid' = None)
      /\ (IsSome(active_socket) /\ active_socket' = None) => ClearStep
      /\ (IsSome(last_pid) /\ last_pid' = None) => ClearStep
    ]_vars

\* C12: the clearing transition ("null" handled while a session is live) leaves
\* active_socket = None and last_pid as it was, and no other step takes
\* active_socket from Some to None; last_pid goes from Some to None only when
\* the update for a new session stores an event that has no pid.
PresenceReset ==
  [][ /\ ClearStep => (active_socket' = None /\ last_pid' = last_pid /\ proc_ev.id = "null")
      /\ (IsSome(active_socket) /\ active_socket' = None) => ClearStep
      /\ (IsSome(last_pid) /\ last_pid' = None)
           => (proc_pc = "update" /\ proc_pc' = "send" /\ proc_ev.pid = None)
    ]_vars

\* a session with pid 42 was cleared and last_pid still holds 42; before it,
\* nothing else was handled
PresenceResetWitness ==
  /\ Len(procLog) = 2
  /\ proc_pc = "recv"
  /\ procLog[1].ev.pid = Some(42)
  /\ procLog[2].ev.id = "null"
  /\ Len(procLog[2].out) = 1
  /\ active_socket = None
  /\ last_pid = Some(42)

\* the event reaches the populate step and its populated payload has no
\* serialized form
PopulatedUnwritable(cmd) ==
  /\ IsSome(Fix(cmd).args)
  /\ IsSome(Fix(cmd).args[1].activity)
  /\ ~Writable(Fix(cmd).args[1].activity)

\* the serialization the socket-command loop attempts for the event fails
WsUnwritable(cmd) ==
  IF cmd.cmd # "SET_ACTIVITY" THEN CmdToString(cmd) = None ELSE PopulatedUnwritable(cmd)

\* C13: handled with a client registered, an event whose outgoing payload
\* cannot be serialized makes no send_data call (no send on any connection) and
\* the loop is back at its recv: on the IPC populate path, on the
\* socket-command SET_ACTIVITY populate path and on the socket-command
\* pass-through path alike.
SerializationFailureSkips ==
  /\ ( /\ ipcCount > 0 /\ ipc_pc = "recv"
       /\ ipcEntry.audience = "some"
       /\ PopulatedUnwritable(ipcEntry.ev) )
     => ipcEntry.out = <<>>
  /\ ( /\ wsCount > 0 /\ ws_pc = "recv"
       /\ wsEntry.audience = "some"
       /\ WsUnwritable(wsEntry.ev) )
     => wsEntry.out = <<>>

\* the IPC loop has finished with an event it received while a client was
\* registered
IpcHandled == ipcCount > 0 /\ ipc_pc = "recv" /\ ipcEntry.audience = "some"

\* C14: handled with a client registered, an IPC event with no argument bundle
\* makes no send_data call; one with a bundle but no activity makes exactly one,
\* the empty payload with pid the event's pid (0 when absent) and socketId that
\* pid as text; one with an activity that can be serialized makes exactly one,
\* the populated payload whose activity carries the event's application id,
\* with pid the event's pid and socketId the text of (pid or 0).
IpcTransform ==
  IpcHandled =>
    LET e == ipcEntry.ev IN
    IF e.args = None
    THEN ipcEntry.out = <<>>
    ELSE LET pid == e.args[1].pid
             activity == Fix(e).args[1].activity
         IN
         IF e.args[1].activity = None
         THEN Payloads(ipcEntry.out) =
                << empty_activity(UnwrapOr(pid, 0), U64ToString(UnwrapOr(pid, 0))) >>
         ELSE Writable(activity) =>
                Payloads(ipcEntry.out) =
                  << "{\"activity\":{\"application_id\":" \o JsonOptString(e.application_id)
                     \o ",\"name\":\"" \o activity[1].name
                     \o "\",\"flags\":" \o JsonOptU64(activity[1].flags)
                     \o "},\"pid\":" \o JsonOptU64(pid)
                     \o ",\"socketId\":\"" \o U64ToString(UnwrapOr(pid, 0)) \o "\"}" >>

\* an IPC event with pid 42 and an activity that named another application was
\* broadcast stamped with the event's application id
IpcTransformWitness ==
  /\ IpcHandled
  /\ ipcEntry.ev.args = Some(CmdArgs(Some(42), Some(Activity("Song", None))))
  /\ Payloads(ipcEntry.out) =
       << "{\"activity\":{\"application_id\":\"app1\",\"name\":\"Song\",\"flags\":0},\"pid\":42,\"socketId\":\"42\"}" >>
  /\ ipcEntry.out[1].to # {}

\* what an event of the IPC kind broadcasts, told from the event alone
ActivityPayloads(e) ==
  IF e.args = None \/ PopulatedUnwritable(e)
  THEN <<>>
  ELSE IF e.args[1].activity = None
       THEN << empty_activity(UnwrapOr(e.args[1].pid, 0), U64ToString(UnwrapOr(e.args[1].pid, 0))) >>
       ELSE << PayloadToString(
                 [activity |-> Some([Fix(e).args[1].activity[1]
                                       EXCEPT !.application_id = e.application_id]),
                  pid |-> e.args[1].pid,
                  socket_id |-> Some(U64ToString(UnwrapOr(e.args[1].pid, 0)))])[1] >>

\* what a socket-command event broadcasts, told from the event alone
SocketCommandPayloads(e) ==
  IF e.cmd # "SET_ACTIVITY" THEN << UnwrapOr(CmdToString(e), "") >> ELSE ActivityPayloads(e)

\* the broadcasts of the IPC and socket-command loops are those their events
\* alone determine
EventOnlyOutcomes ==
  /\ IpcHandled => Payloads(ipcEntry.out) = ActivityPayloads(ipcEntry.ev)
  /\ (wsCount > 0 /\ ws_pc = "recv" /\ wsEntry.audience = "some")
       => Payloads(wsEntry.out) = SocketCommandPayloads(wsEntry.ev)

\* what the process-detection loop, running alone from state pre with a client
\* registered, broadcasts for event ev, and the state it ends in
ProcAlone(pre, ev) ==
  IF ev.id = "null"
  THEN IF pre.active_socket = None
       THEN [out |-> <<>>, post |-> pre]
       ELSE [out |-> << empty_activity(UnwrapOr(pre.last_pid, 0), pre.active_socket[1]) >>,
             post |-> [pre EXCEPT !.active_socket = None]]
  ELSE IF pre.active_socket = Some(ev.id)
       THEN [out |-> <<>>, post |-> pre]
       ELSE [out |-> (IF IsSome(pre.active_socket)
                      THEN << empty_activity(UnwrapOr(pre.last_pid, 0), pre.active_socket[1]) >>
                      ELSE <<>>) \o << proc_payload(ev) >>,
             post |-> [active_socket |-> Some(ev.id), last_pid |-> ev.pid]]

\* every event the process-detection loop has finished with was handled as if
\* the loop ran alone, starting from (None, None)
ProcAsAlone ==
  /\ procLog # <<>> => procLog[1].pre = [active_socket |-> None, last_pid |-> None]
  /\ \A i \in 1..Len(procLog) :
       Finished(i) =>
         LET e == procLog[i] IN
         IF e.audience = "none"
         THEN e.out = <<>> /\ After(i) = e.pre
         ELSE /\ Payloads(e.out) = ProcAlone(e.pre, e.ev).out
              /\ After(i) = ProcAlone(e.pre, e.ev).post

\* a step of the IPC loop or of the socket-command loop
IpcOrWsStep ==
  \/ <<ipc_pc, ipc_ev, ipcCount, ipcEntry>>' # <<ipc_pc, ipc_ev, ipcCount, ipcEntry>>
  \/ <<ws_pc, ws_ev, wsCount, wsEntry>>' # <<ws_pc, ws_ev, wsCount, wsEntry>>

\* C15: no step of the IPC loop or of the socket-command loop changes last_pid
\* or active_socket, what such a loop broadcasts for an event is told by the
\* event alone (not by last_pid or active_socket), and the process-detection
\* loop's broadcasts and states are those it would produce running alone,
\* whatever IPC and socket-command events are handled in between.
Frame ==
  [][ /\ IpcOrWsStep => UNCHANGED <<last_pid, active_socket>>
      /\ EventOnlyOutcomes'
      /\ ProcAsAlone'
    ]_vars

\* a connection got the populated payload of a session, then, with the session
\* still live, the empty payload of an IPC event that has no pid: keyed "0"
FrameWitness ==
  /\ IpcHandled
  /\ proc_pc = "recv"
  /\ active_socket = Some("123")
  /\ ipcEntry.ev.args = Some(CmdArgs(None, None))
  /\ Payloads(ipcEntry.out) = << empty_activity(0, "0") >>
  /\ \E c \in Ids :
       /\ Len(sent[c]) = 3
       /\ sent[c][2].by = "proc"
       /\ sent[c][3].by = "ipc"

\* the loop has finished with its i-th event and active_socket is not what it
\* was when the event was received
SessionChanged(i) == Finished(i) /\ After(i).active_socket # procLog[i].pre.active_socket

\* C19 as stated: whenever the process-detection loop has changed
\* active_socket, the payload that goes with the change went to at least one
\* registered connection; the registry is never empty at a send_data call of an
\* event that passed the emptiness test.
StateAdvanceDelivered ==
  \A i \in 1..Len(procLog) :
    /\ SessionChanged(i) =>
         (procLog[i].out # <<>> /\ LastEntry(procLog[i].out).to # {})
    /\ \A k \in 1..Len(procLog[i].out) : procLog[i].out[k].to # {}

\* C19: whenever the process-detection loop has changed active_socket, the
\* registry was not empty when the event passed the emptiness test and the
\* loop made the send_data call that goes with the change (the populated
\* payload of the new session, or the empty payload of the cleared one) as the
\* last call of the event; the registry at that call may be empty.
StateAdvanceBroadcast ==
  \A i \in 1..Len(procLog) :
    SessionChanged(i) =>
      LET e == procLog[i] IN
      /\ e.audience = "some"
      /\ e.out # <<>>
      /\ LastEntry(e.out).data =
           IF e.ev.id = "null"
           THEN empty_activity(UnwrapOr(e.pre.last_pid, 0), e.pre.active_socket[1])
           ELSE proc_payload(e.ev)

\* a session went live and its populated payload was handed to a registry the
\* last client had just left: nobody was sent it
StateAdvanceBroadcastWitness ==
  /\ Len(procLog) = 1
  /\ SessionChanged(1)
  /\ active_socket = Some("123")
  /\ Payloads(procLog[1].out) = << proc_payload(procLog[1].ev) >>
  /\ procLog[1].out[1].to = {}
  /\ clients = {}

\* the events sent into producer channel p, in the order sent
RECURSIVE ArrivedFrom(_, _)
ArrivedFrom(p, seq) ==
  IF seq = <<>> THEN <<>>
  ELSE (IF Head(seq).src = p THEN << Head(seq).ev >> ELSE <<>>) \o ArrivedFrom(p, Tail(seq))

\* the payloads connection c was sent by producer loop p, in the order sent
RECURSIVE SentBy(_, _)
SentBy(p, seq) ==
  IF seq = <<>> THEN <<>>
  ELSE (IF Head(seq).by = p THEN << Head(seq).data >> ELSE <<>>) \o SentBy(p, Tail(seq))

\* s is t with some elements left out, the order kept
RECURSIVE IsSubseq(_, _)
IsSubseq(s, t) ==
  IF s = <<>> THEN TRUE
  ELSE IF t = <<>> THEN FALSE
  ELSE IF Head(s) = Head(t) THEN IsSubseq(Tail(s), Tail(t))
  ELSE IsSubseq(s, Tail(t))

IsPrefix(s, t) == Len(s) <= Len(t) /\ s = SubSeq(t, 1, Len(s))

\* the payloads of the events of a sequence, each told from its event alone
RECURSIVE PayloadsOf(_, _)
PayloadsOf(p, evs) ==
  IF evs = <<>> THEN <<>>
  ELSE (IF p = "ipc" THEN ActivityPayloads(Head(evs)) ELSE SocketCommandPayloads(Head(evs)))
       \o PayloadsOf(p, Tail(evs))

\* C16: each producer loop receives its channel's events in the order they
\* were sent into it, and what a connection is sent by one producer loop
\* follows that order: the IPC (socket-command) payloads a connection got are,
\* in order, payloads of the IPC (socket-command) events in arrival order, and
\* the process-detection payloads it got are, in order, among the broadcasts
\* the loop made for its events taken in arrival order.
Fifo ==
  /\ \A p \in Producers : IsPrefix(taken[p], ArrivedFrom(p, arrivals))
  /\ [i \in 1..Len(procLog) |-> procLog[i].ev] = taken["proc"]
  /\ \A c \in Ids :
       /\ IsSubseq(SentBy("ipc", sent[c]), PayloadsOf("ipc", ArrivedFrom("ipc", arrivals)))
       /\ IsSubseq(SentBy("ws", sent[c]), PayloadsOf("ws", ArrivedFrom("ws", arrivals)))
       /\ IsSubseq(SentBy("proc", sent[c]), Payloads(ProcBroadcasts))

\* two IPC events and, sent between them, a socket command: the connection got
\* the two IPC payloads in arrival order, and the socket command's payload,
\* which arrived after the first IPC event, before both
FifoWitness ==
  \E c \in clients :
    /\ Len(arrivals) = 3
    /\ arrivals[1].src = "ipc" /\ arrivals[2].src = "ws" /\ arrivals[3].src = "ipc"
    /\ arrivals[1].ev # arrivals[3].ev
    /\ Len(sent[c]) = 4
    /\ sent[c][2].by = "ws"
    /\ sent[c][3] = [data |-> ActivityPayloads(arrivals[1].ev)[1], ok |-> TRUE, by |-> "ipc"]
    /\ sent[c][4] = [data |-> ActivityPayloads(arrivals[3].ev)[1], ok |-> TRUE, by |-> "ipc"]

\* a loop that has ended: its thread panicked, or the process was aborted
Dead == {"panicked", "aborted"}

\* C11: no loop ever ends: whatever the events (an IPC event without an
\* argument bundle, a payload that cannot be serialized, a send on a closed
\* connection, an inbound message whose id is not in the registry), the
\* transport loop and the three producer loops are all still running.
LoopsKeepRunning == {tpc, ipc_pc, proc_pc, ws_pc} \cap Dead = {}

\* the steps each thread can take by itself, its next event being there
TransportSteps == LockServer \/ HeldConnect \/ HeldInsert \/ HeldMessage
ProcSteps ==
  \/ \E e \in LockEvents["proc"] : LockedProcRecv(e)
  \/ LockedProcSendClear \/ LockedProcReset \/ LockedProcSendClose
  \/ LockedProcUpdate \/ LockedProcSendPopulated
  \/ SendNext("proc") \/ EndSend("proc")
IpcSteps ==
  \/ \E e \in LockEvents["ipc"] : LockedIpcRecv(e)
  \/ LockedIpcHandle \/ SendNext("ipc") \/ EndSend("ipc")
WsSteps ==
  \/ \E e \in LockEvents["ws"] : LockedWsRecv(e)
  \/ LockedWsHandle \/ SendNext("ws") \/ EndSend("ws")

\* the registry mutex is held by a producer loop that can take its next step
RegistryHolderRuns ==
  \/ holder["clients"] = "proc" /\ proc_pc \notin Dead /\ ENABLED ProcSteps
  \/ holder["clients"] = "ipc" /\ ipc_pc \notin Dead /\ ENABLED IpcSteps
  \/ holder["clients"] = "ws" /\ ws_pc \notin Dead /\ ENABLED WsSteps

\* the transport loop is inside poll_event with nothing to return yet
InPollEvent == tpc = "poll" /\ holder["server"] = "transport" /\ hub = <<>>

\* C17: a loop that has not ended either can take its next step (for a
\* producer loop: once its next event is there), or waits in poll_event for an
\* event, or waits for the registry mutex while a producer loop that can take
\* its own next step holds it: no loop waits for a mutex whose holder waits
\* too or has ended, also after the transport loop has panicked in the echo.
NoLockWait ==
  /\ tpc \notin Dead => (ENABLED TransportSteps \/ InPollEvent \/ RegistryHolderRuns)
  /\ proc_pc \notin Dead => (ENABLED ProcSteps \/ RegistryHolderRuns)
  /\ ipc_pc \notin Dead => (ENABLED IpcSteps \/ RegistryHolderRuns)
  /\ ws_pc \notin Dead => (ENABLED WsSteps \/ RegistryHolderRuns)
  /\ holder["clients"] # Free => RegistryHolderRuns
  /\ holder["server"] # Free => (holder["server"] = "transport" /\ tpc \notin Dead)

\* the transport loop has panicked in the echo and the IPC loop, coming to the
\* registry mutex after it, was not kept waiting: lock() returned (the mutex is
\* free and poisoned) and the loop ended at unwrap()
NoLockWaitWitness ==
  /\ tpc = "panicked"
  /\ ipc_pc = "panicked"
  /\ holder["clients"] = Free
  /\ "clients" \in poisoned

\* how many payloads of producer loop p connection c has been sent, and where
\* the first of them stands among all it has been sent
CountBy(c, p) == Cardinality({k \in 1..Len(sent[c]) : sent[c][k].by = p})
FirstBy(c, p) == CHOOSE k \in 1..Len(sent[c]) :
                   sent[c][k].by = p /\ \A j \in 1..(k - 1) : sent[c][j].by # p

\* at most one send_data iteration is under way
OneIteration == Cardinality({p \in Producers : iter[p] # None}) <= 1

\* two connections that each got the one broadcast of p and the one broadcast
\* of q got them in the same order
SameOrder ==
  \A c \in Ids, d \in Ids :
    \A p \in Producers, q \in Producers :
      ( /\ p # q
        /\ CountBy(c, p) = 1 /\ CountBy(c, q) = 1
        /\ CountBy(d, p) = 1 /\ CountBy(d, q) = 1 )
      => ((FirstBy(c, p) < FirstBy(c, q)) <=> (FirstBy(d, p) < FirstBy(d, q)))

\* C18: while a send_data iteration is under way the registry does not change,
\* no second iteration starts before it is over (the sends of two broadcasts
\* never interleave), and any two connections that were both sent the same two
\* broadcasts of different producer loops were sent them in the same order.
BroadcastAtomic ==
  [][ /\ (\E p \in Producers : iter[p] # None) => clients' = clients
      /\ OneIteration'
      /\ SameOrder'
    ]_vars

\* two connections have each been sent the welcome, then the IPC loop's
\* broadcast, then the socket-command loop's
BroadcastAtomicWitness ==
  \E c \in clients, d \in clients :
    /\ c # d
    /\ [k \in 1..Len(sent[c]) |-> sent[c][k].by] = << "connect", "ipc", "ws" >>
    /\ [k \in 1..Len(sent[d]) |-> sent[d][k].by] = << "connect", "ipc", "ws" >>

\* C20: a Drop that has been called is not left waiting for the server mutex
\* with only a further transport event able to free it: whenever Drop waits,
\* the mutex is free, or the transport loop holding it can go on by itself
\* towards the end of its match (at once, or once a send_data iteration that
\* keeps it from the registry is over).
DropNotBlocked ==
  drop_pc = "lock" =>
    \/ holder["server"] = Free
    \/ ENABLED TransportSteps
    \/ RegistryHolderRuns

====
